---- MODULE Spec2Model ----
(***************************************************************************)
(* Generation / validation / execution pipeline of insight-pilot:          *)
(*   services/code_executor.py  validate_code, create_safe_globals,        *)
(*                              execute_code and its worker thread _run    *)
(*   api/routes/analysis.py     analyze  (REST orchestrator)               *)
(*   pages/analyze.py           _generate_chart (wizard orchestrator)      *)
(*   services/credit_service.py calculate_credit_cost, deduct_credits      *)
(* Strings are modelled as sequences of string tokens, so that formatting  *)
(* (f-strings) is concatenation and two messages are equal exactly when    *)
(* their texts are.                                                        *)
(***************************************************************************)
EXTENDS Integers, Sequences, FiniteSets, TLC

(***************************************************************************)
(* Bounds of the model                                                     *)
(***************************************************************************)
\* rows of the caller's dataset
MaxRows == 1
\* token counts a generation call may report: 600, 1200, ..
MaxTokenUnits == 1
\* nodes (those a rule of validate_code looks at) of a generated syntax tree
MaxNodes == 2
\* validate_code calls a direct caller makes
MaxCalls == 3
\* credits of one deduct_credits call: 1 .. MaxAmount
MaxAmount == 2
\* balance of the workspace before the credit calls: 0 .. MaxBalance
MaxBalance == 4
\* add_credits, deduct_credits and reset_monthly_credits calls made on the
\* workspace
MaxLedgerOps == 3
\* token counts handed to calculate_credit_cost directly: 0 .. MaxTokens
MaxTokens == 2001

(***************************************************************************)
(* Program constants                                                       *)
(***************************************************************************)
CODE_EXEC_TIMEOUT_SECONDS == 30
TOKENS_PER_CREDIT == 1000
\* `retries < 2` in both orchestrators
MaxRetries == 2
\* check_sufficient_credits(ws.id, 5)
EstimatedCost == 5

ALLOWED_MODULES ==
    { <<"pandas">>, <<"numpy">>, <<"plotly">>, <<"plotly", "express">>,
      <<"plotly", "graph_objects">>, <<"plotly", "subplots">>, <<"datetime">>,
      <<"math">>, <<"statistics">>, <<"json">>, <<"re">> }

BLOCKED_BUILTINS ==
    { "exec", "eval", "compile", "__import__", "open", "input",
      "breakpoint", "exit", "quit", "globals", "locals",
      "getattr", "setattr", "delattr", "vars", "dir",
      "memoryview", "bytearray" }

BLOCKED_ATTR_PATTERNS ==
    { "__import__", "__subclasses__", "__bases__", "__class__",
      "__globals__", "__code__", "__func__" }

\* first tuple of validate_code's Call branch (lines 75-76)
BlockedCallBases ==
    { "os", "sys", "subprocess", "shutil", "socket",
      "requests", "urllib", "http", "ftplib", "pathlib" }

\* second tuple of validate_code's Call branch (lines 78-79)
BlockedCallNames ==
    { "open", "exec", "eval", "compile", "__import__",
      "input", "breakpoint", "exit", "quit" }

\* Python's None where a string is expected
None == << "<None>" >>

(***************************************************************************)
(* Syntax trees.  An expression is a Name, an Attribute on an expression,  *)
(* or some other expression (call, subscript, literal).  A code string is  *)
(* given by whether it parses and by its nodes in ast.walk order.          *)
(***************************************************************************)
OtherExpr == [kind |-> "Other", id |-> "", attr |-> "", value |-> <<>>]
NameExpr(id) == [kind |-> "Name", id |-> id, attr |-> "", value |-> <<>>]
AttrExpr(v, a) == [kind |-> "Attribute", id |-> "", attr |-> a, value |-> <<v>>]

BlankNode == [type |-> "Other", names |-> <<>>, module |-> <<>>,
              func |-> OtherExpr, attr |-> "", targets |-> <<>>]
ImportNode(names) == [BlankNode EXCEPT !.type = "Import", !.names = names]
ImportFromNode(module) == [BlankNode EXCEPT !.type = "ImportFrom", !.module = module]
CallNode(func) == [BlankNode EXCEPT !.type = "Call", !.func = func]
AttributeNode(attr) == [BlankNode EXCEPT !.type = "Attribute", !.attr = attr]
AssignNode(targets) == [BlankNode EXCEPT !.type = "Assign", !.targets = targets]
AugAssignNode(target) == [BlankNode EXCEPT !.type = "AugAssign", !.targets = <<target>>]

\* ".".join(parts)
RECURSIVE Dotted(_)
Dotted(parts) ==
    IF Len(parts) <= 1 THEN parts
    ELSE <<Head(parts), ".">> \o Dotted(Tail(parts))

\* the while loop of _get_call_name: attrs from the outermost inwards, then
\* the root identifier when the chain ends in a Name
RECURSIVE CallNameParts(_)
CallNameParts(e) ==
    IF e.kind = "Attribute" THEN <<e.attr>> \o CallNameParts(e.value[1])
    ELSE IF e.kind = "Name" THEN <<e.id>>
    ELSE <<>>

RECURSIVE Reversed(_)
Reversed(s) == IF s = <<>> THEN <<>> ELSE Reversed(Tail(s)) \o <<Head(s)>>

\* _get_call_name: segments of the dotted name, <<>> for None
_get_call_name(node) ==
    IF node.func.kind = "Name" THEN <<node.func.id>>
    ELSE IF node.func.kind = "Attribute" THEN Reversed(CallNameParts(node.func))
    ELSE <<>>

\* an Import check that looks at the first alias only
FirstBadAlias_firstonly(names) ==
    IF names # <<>> /\ <<Head(Head(names))>> \notin ALLOWED_MODULES THEN Head(names) ELSE <<>>

\* first alias of an Import whose top-level package is not allowed, <<>> if none
RECURSIVE FirstBadAlias(_)
FirstBadAlias(names) ==
    IF names = <<>> THEN <<>>
    ELSE IF <<Head(Head(names))>> \notin ALLOWED_MODULES THEN Head(names)
    ELSE FirstBadAlias(Tail(names))

\* body of the first loop of validate_code for one node: the reason it
\* returns, <<>> when the node passes
NodeViolation(node) ==
    IF node.type = "Import" THEN
        IF FirstBadAlias(node.names) # <<>>
        THEN <<"Import of '">> \o Dotted(FirstBadAlias(node.names)) \o <<"' is not allowed.">>
        ELSE <<>>
    ELSE IF node.type = "ImportFrom" THEN
        IF node.module # <<>> /\ <<Head(node.module)>> \notin ALLOWED_MODULES
        THEN <<"Import from '">> \o Dotted(node.module) \o <<"' is not allowed.">>
        ELSE <<>>
    ELSE IF node.type = "Call" THEN
        LET func_name == _get_call_name(node) IN
        IF func_name # <<>> /\ Head(func_name) \in BlockedCallBases
        THEN <<"Call to '">> \o Dotted(func_name) \o <<"' is not allowed.">>
        ELSE IF Len(func_name) = 1 /\ func_name[1] \in BlockedCallNames
        THEN <<"Call to '">> \o Dotted(func_name) \o <<"' is not allowed.">>
        ELSE <<>>
    ELSE IF node.type = "Attribute" THEN
        IF node.attr \in BLOCKED_ATTR_PATTERNS
        THEN <<"Access to '", node.attr, "' is not allowed.">>
        ELSE <<>>
    ELSE <<>>

\* a first loop that looks for a disallowed import in the whole tree first,
\* then for a blocked call, then for a blocked attribute
FirstViolation_byrule(nodes) ==
    LET bad(T) == { i \in 1..Len(nodes) :
                      nodes[i].type \in T /\ NodeViolation(nodes[i]) # <<>> }
        first(S) == NodeViolation(nodes[CHOOSE i \in S : \A j \in S : i <= j])
    IN IF bad({"Import", "ImportFrom"}) # {} THEN first(bad({"Import", "ImportFrom"}))
       ELSE IF bad({"Call"}) # {} THEN first(bad({"Call"}))
       ELSE IF bad({"Attribute"}) # {} THEN first(bad({"Attribute"}))
       ELSE <<>>

\* first loop of validate_code: the reason of the first node of ast.walk
\* that breaks a rule, <<>> if none does
RECURSIVE FirstViolation(_)
FirstViolation(nodes) ==
    IF nodes = <<>> THEN <<>>
    ELSE IF NodeViolation(Head(nodes)) # <<>> THEN NodeViolation(Head(nodes))
    ELSE FirstViolation(Tail(nodes))

\* validate_code without its second loop
AssignsFig_skipped(nodes) == TRUE

\* second loop of validate_code
AssignsFig(nodes) ==
    \E i \in 1..Len(nodes) :
        /\ nodes[i].type \in {"Assign", "AugAssign"}
        /\ \E j \in 1..Len(nodes[i].targets) : nodes[i].targets[j] = "fig"

MissingFigReason ==
    <<"Code must assign a plotly figure to a variable named 'fig'.">>

\* validate_code(code) -> (is_safe, error_message)
validate_code(code) ==
    IF ~code.parses THEN <<FALSE, <<"Syntax error: ", "invalid syntax">> >>
    ELSE IF FirstViolation(code.nodes) # <<>> THEN <<FALSE, FirstViolation(code.nodes)>>
    ELSE IF ~AssignsFig(code.nodes) THEN <<FALSE, MissingFigReason>>
    ELSE <<TRUE, <<>> >>

(***************************************************************************)
(* Code strings.  `run` is what the string does when exec'ed in the        *)
(* sandbox: bind fig to a Figure, to the integer 0 or 1, leave fig         *)
(* unbound, raise an Exception, raise SystemExit (a BaseException), or     *)
(* loop forever.  `mutates` says whether it assigns to df['value'].  `exc`  *)
(* is the exception a raising string raises: the name of its type, then    *)
(* the tokens of its message.  How long a string runs is not fixed: any    *)
(* worker may still be running when the timeout of join expires.           *)
(***************************************************************************)
PxBar == CallNode(AttrExpr(NameExpr("px"), "bar"))

CodeTable ==
    [ bar |->       \* import plotly.express as px; fig = px.bar(df, x='category', y='value')
        [parses |-> TRUE, run |-> "figure", mutates |-> FALSE, exc |-> <<>>,
         nodes |-> <<ImportNode(<< <<"plotly", "express">> >>), AssignNode(<<"fig">>),
                     PxBar, AttributeNode("bar")>>],
      scaled |->    \* df['value'] = df['value'] * 100; fig = px.bar(df, ...)
        [parses |-> TRUE, run |-> "figure", mutates |-> TRUE, exc |-> <<>>,
         nodes |-> <<AssignNode(<<"">>), AssignNode(<<"fig">>), PxBar, AttributeNode("bar")>>],
      badcol |->    \* fig = px.bar(df, x='nonexistent_column', y='value')
        [parses |-> TRUE, run |-> "raise", mutates |-> FALSE, exc |-> <<"ValueError", "nonexistent_column">>,
         nodes |-> <<AssignNode(<<"fig">>), PxBar, AttributeNode("bar")>>],
      spin |->      \* fig = 1; while True: pass
        [parses |-> TRUE, run |-> "loop", mutates |-> FALSE, exc |-> <<>>,
         nodes |-> <<AssignNode(<<"fig">>)>>],
      sysexit |->   \* fig = 1; raise SystemExit
        [parses |-> TRUE, run |-> "sysexit", mutates |-> FALSE, exc |-> <<"SystemExit">>,
         nodes |-> <<AssignNode(<<"fig">>)>>],
      imp_os |->    \* import os; fig = 1
        [parses |-> TRUE, run |-> "raise", mutates |-> FALSE, exc |-> <<"ImportError", "Import of '", "os", "' is not allowed.">>,
         nodes |-> <<ImportNode(<< <<"os">> >>), AssignNode(<<"fig">>)>>],
      one |->       \* fig = 1
        [parses |-> TRUE, run |-> "int1", mutates |-> FALSE, exc |-> <<>>,
         nodes |-> <<AssignNode(<<"fig">>)>>],
      zero |->      \* fig = 0
        [parses |-> TRUE, run |-> "int0", mutates |-> FALSE, exc |-> <<>>,
         nodes |-> <<AssignNode(<<"fig">>)>>],
      forged |->    \* fig = 1; E = type('Code validation failed', (Exception,), {})
                    \* raise E("Import of 'os' is not allowed.")
        [parses |-> TRUE, run |-> "raise", mutates |-> FALSE,
         exc |-> <<"Code validation failed", "Import of '", "os", "' is not allowed.">>,
         nodes |-> <<AssignNode(<<"fig">>), AssignNode(<<"E">>),
                     CallNode(NameExpr("type")), CallNode(NameExpr("E"))>>],
      unbound |->   \* if False: fig = 1
        [parses |-> TRUE, run |-> "unbound", mutates |-> FALSE, exc |-> <<>>,
         nodes |-> <<AssignNode(<<"fig">>)>>],
      empty |->     \* the empty string
        [parses |-> TRUE, run |-> "unbound", mutates |-> FALSE, exc |-> <<>>, nodes |-> <<>>],
      broken |->    \* fig = (
        [parses |-> FALSE, run |-> "raise", mutates |-> FALSE, exc |-> <<"SyntaxError", "invalid syntax">>, nodes |-> <<>>] ]

\* every code string of the model: what a direct caller of execute_code
\* (the tests) may pass
Codes == DOMAIN CodeTable

\* the code strings the generation client returns in a session: one that
\* runs and changes df, one that never ends, one that exits, one that
\* validate_code rejects, and the empty string
StubCodes == {"scaled", "spin", "sysexit", "imp_os", "empty"}

CodeOf(c) == CodeTable[c]

\* execute_code that runs the code whatever validate_code says
IsSafe_always(c) == TRUE

\* lines 187-188 of execute_code: is_safe of validate_code(code)
IsSafe(c) == validate_code(CodeOf(c))[1]

(***************************************************************************)
(* Code strings handed to validate_code directly.  Only the nodes that a   *)
(* rule of validate_code looks at are listed; every order of them is the   *)
(* ast.walk order of some program (a statement nested in deeper blocks is   *)
(* walked later).                                                          *)
(***************************************************************************)
\* fig: go.Figure = ...
AnnAssignNode(target) == [BlankNode EXCEPT !.type = "AnnAssign", !.targets = <<target>>]

NodeAlphabet ==
    { ImportNode(<< <<"os">> >>),                     \* import os
      ImportNode(<< <<"json">>, <<"subprocess">> >>),  \* import json, subprocess
      ImportNode(<< <<"plotly", "express">> >>),      \* import plotly.express as px
      ImportFromNode(<<"urllib", "request">>),        \* from urllib.request import urlopen
      ImportFromNode(<<"plotly", "subplots">>),       \* from plotly.subplots import make_subplots
      CallNode(NameExpr("open")),                     \* open(..)
      PxBar,                                          \* px.bar(..)
      CallNode(AttrExpr(OtherExpr, "sum")),           \* df.groupby(..).sum()
      CallNode(AttrExpr(OtherExpr, "eval")),          \* df.head(..).eval(..)
      AttributeNode("__class__"),                     \* x.__class__
      AssignNode(<<"fig">>),                          \* fig = ..
      AssignNode(<<"(fig, ax)">>),                    \* fig, ax = ..
      AugAssignNode("fig"),                           \* fig += ..
      AnnAssignNode("fig") }                          \* fig: go.Figure = ..

RECURSIVE NodeSeqs(_)
NodeSeqs(n) ==
    IF n = 0 THEN { <<>> }
    ELSE NodeSeqs(n - 1) \cup
         { Append(q, x) : q \in {r \in NodeSeqs(n - 1) : Len(r) = n - 1}, x \in NodeAlphabet }

\* "" (and whitespace-only or comment-only code): parses to an empty Module
EmptyCode == [parses |-> TRUE, nodes |-> <<>>]

\* the strings a direct caller may hold: one that does not parse, and every
\* tree of at most MaxNodes nodes
CodeStrings ==
    { [parses |-> FALSE, nodes |-> <<>>] } \cup
    { [parses |-> TRUE, nodes |-> q] : q \in NodeSeqs(MaxNodes) }

\* tokens_used a generation call may report
TokenVals == { 600 * k : k \in 1..MaxTokenUnits }

\* the 'value' column of the caller's dataset
Datasets == { [i \in 1..n |-> 10 * i] : n \in 1..MaxRows }

\* df['value'] = df['value'] * 100
Scale(col) == [i \in 1..Len(col) |-> col[i] * 100]

\* exceptions a generation call can raise: get_client without a key, or an
\* upstream API error
GenerationErrors ==
    { <<"No Anthropic API key configured. Set ANTHROPIC_API_KEY in .env or provide your own in Settings.">>,
      <<"Connection error.">> }

(***************************************************************************)
(* State                                                                   *)
(***************************************************************************)
VARIABLES
    entry,          \* "api" (analyze), "wizard" (_generate_chart), "execute"
                    \* (execute_code called directly, as the tests do),
                    \* "validate" (validate_code called directly), "sandbox"
                    \* (create_safe_globals called directly), "credits" and
                    \* "cost" (the credit service called directly)
    original,       \* the caller's dataset as it was when the session began
    frames,         \* heap of DataFrames: frames[1] is the caller's df
    ledger,         \* credit_ledger rows of the workspace, oldest first
    pc,             \* position of the orchestrator / of execute_code
    code,           \* local `code`
    total_tokens,   \* local `total_tokens`
    retries,        \* local `retries`
    execs,          \* one record per execute_code call: its code, its
                    \* `result` dict, its worker thread and sandbox df
    response,       \* what the entry point hands back to its caller
    genCalls,       \* number of generate_chart_code calls made
    tokensSum,      \* sum of tokens_used over the generation calls that returned
    refineLog,      \* arguments of every refine_chart_code call
    returned,       \* the outcome of each execute_code call, as it returned
    charges,        \* token totals handed to calculate_credit_cost
    saved,          \* rows written by save_prompt_history
    candidate,      \* the code string a direct caller of validate_code holds
    verdicts,       \* every direct validate_code call: its argument and
                    \* the (is_safe, error_message) it returned
    callers,        \* the two concurrent users of the credit service: where
                    \* each is in its call, and its locals
    overlap,        \* a credit call began while another was under way
    quotes,         \* every direct calculate_credit_cost call: its argument
                    \* and the cost it returned
    sandboxes,      \* what every direct create_safe_globals call returned:
                    \* the builtins mapping and the DataFrame bound to df
    requests        \* the last message of every request refine_chart_code
                    \* sent to the generation client

vars == <<entry, original, frames, ledger, pc, code, total_tokens, retries,
          execs, response, genCalls, tokensSum, refineLog, returned, charges, saved,
          candidate, verdicts, callers, overlap, quotes, sandboxes, requests>>

hist == <<genCalls, tokensSum, refineLog, returned, charges, saved, candidate, verdicts,
          callers, overlap, quotes, sandboxes, requests>>

NoResponse == [success |-> FALSE, error |-> None, credits_used |-> 0, kind |-> "none"]

\* result = {"success": False, "figure": None, "error": None, "execution_time_ms": 0}
NewResult == [success |-> FALSE, figure |-> "None", error |-> None, execution_time_ms |-> 0]

\* where execute_code returns to: the orchestrator's retry loop, or the
\* direct caller
AfterExecute == IF entry = "execute" THEN "done" ELSE "loop_test"

\* the result dict the current exec_result refers to
Cur == Len(execs)

TimeoutMessage ==
    <<"Code execution timed out after ", ToString(CODE_EXEC_TIMEOUT_SECONDS), " seconds.">>

\* get_credit_balance: balance_after of the newest row, 0 without rows
get_balance(l) == IF l = <<>> THEN 0 ELSE l[Len(l)].balance_after

Max(a, b) == IF a >= b THEN a ELSE b

\* a cost that rounds down
calculate_credit_cost_floor(tokens_used) == Max(1, tokens_used \div TOKENS_PER_CREDIT)

\* math.ceil(tokens_used / TOKENS_PER_CREDIT), at least 1
calculate_credit_cost(tokens_used) ==
    Max(1, IF tokens_used % TOKENS_PER_CREDIT = 0
           THEN tokens_used \div TOKENS_PER_CREDIT
           ELSE tokens_used \div TOKENS_PER_CREDIT + 1)

\* deduct_credits: the ledger after the call
deduct_credits(l, amount) ==
    Append(l, [change_amount |-> 0 - amount,
               balance_after |-> Max(0, get_balance(l) - amount)])

\* the users of the credit service
Callers == {1, 2}

\* a caller that is in no credit call
Idle == [pc |-> "idle", op |-> "none", amount |-> 0, current |-> 0]

Init ==
    /\ entry \in {"api", "wizard", "execute", "validate", "sandbox"}
    \* a direct caller of validate_code has no dataset of its own, and only
    \* the orchestrators look at the ledger
    /\ original \in (IF entry = "validate" THEN {<<10>>} ELSE Datasets)
    /\ frames = <<original>>
    /\ \E b \in (IF entry \in {"api", "wizard"} THEN {3, 50} ELSE {50}) :
          ledger = << [change_amount |-> b, balance_after |-> b] >>
    /\ IF entry = "execute"
       THEN pc = "execute" /\ code \in Codes
       ELSE /\ pc = (IF entry \in {"validate", "sandbox"} THEN entry ELSE "start")
            /\ code = "bar"
    /\ IF entry = "validate"
       THEN candidate \in CodeStrings
       ELSE candidate = EmptyCode
    /\ verdicts = <<>>
    /\ callers = [i \in Callers |-> Idle]
    /\ overlap = FALSE
    /\ quotes = <<>>
    /\ sandboxes = <<>>
    /\ requests = <<>>
    /\ total_tokens = 0
    /\ retries = 0
    /\ execs = <<>>
    /\ response = NoResponse
    /\ genCalls = 0
    /\ tokensSum = 0
    /\ refineLog = <<>>
    /\ returned = <<>>
    /\ charges = <<>>
    /\ saved = <<>>

(***************************************************************************)
(* execute_code, caller's side                                             *)
(***************************************************************************)
\* f"Code validation failed: {error_msg}"
ValidationFailed(error_msg) == <<"Code validation failed", ": ">> \o error_msg

\* f"{type(e).__name__}: {e}"
ExceptionText(exc) == <<Head(exc), ": ">> \o Tail(exc)

\* validate_code rejects: return the failure dict, nothing else happens
ExecuteRejected ==
    /\ pc = "execute"
    /\ ~IsSafe(code)
    /\ LET r == [NewResult EXCEPT
                   !.error = ValidationFailed(validate_code(CodeOf(code))[2])]
       IN /\ execs' = Append(execs, [code |-> code, result |-> r, wpc |-> "none",
                                     df |-> 0, deadline |-> FALSE])
          /\ returned' = Append(returned, r)
    /\ pc' = AfterExecute
    /\ UNCHANGED <<requests, sandboxes, callers, overlap, quotes, candidate, verdicts, genCalls, entry, original, frames, ledger, code, total_tokens, retries,
                   response, tokensSum, refineLog, charges, saved>>

\* names in the interpreter's builtins: the blocked ones, the ones the
\* tests expect to stay, and some more
PythonBuiltins ==
    BLOCKED_BUILTINS \cup
    { "len", "range", "int", "float", "str", "list", "dict", "sorted", "max", "min",
      "type", "print", "isinstance", "__build_class__", "__name__" }

\* k.startswith("_")
StartsWithUnderscore(k) == k \in {"__import__", "__build_class__", "__name__"}

\* a builtins mapping that is not filtered
safe_builtins_unfiltered(is_dict) == [k \in PythonBuiltins |-> k]

\* safe_builtins of create_safe_globals: __builtins__ is a dict or a module
\* (either, by the interpreter), filtered, then __import__ set to _safe_import.
\* A builtin is mapped to its own name.
safe_builtins(is_dict) ==
    LET kept == { k \in PythonBuiltins :
                    /\ k \notin BLOCKED_BUILTINS
                    /\ (is_dict \/ ~StartsWithUnderscore(k)) }
    IN [k \in kept \cup {"__import__"} |->
           IF k = "__import__" THEN "_safe_import" ELSE k]

\* create_safe_globals that binds df to the caller's DataFrame itself
create_safe_globals_shared(fr) == [frames |-> fr, df |-> 1]

\* create_safe_globals that copies the DataFrame of the sandbox built last
create_safe_globals_chained(fr) == [frames |-> Append(fr, fr[Len(fr)]), df |-> Len(fr) + 1]

\* create_safe_globals: the heap after df.copy() and the index of the copy
create_safe_globals(fr) == [frames |-> Append(fr, fr[1]), df |-> Len(fr) + 1]

\* validate_code accepts: build the sandbox, local_ns and the result dict,
\* then thread.start(): the worker is running exec(code, ...)
ExecuteStart ==
    /\ pc = "execute"
    /\ IsSafe(code)
    /\ frames' = create_safe_globals(frames).frames
    /\ execs' = Append(execs, [code |-> code, result |-> NewResult, wpc |-> "exec",
                               df |-> create_safe_globals(frames).df,
                               deadline |-> FALSE])
    /\ pc' = "join"
    /\ UNCHANGED <<entry, original, ledger, code, total_tokens, retries, response, hist>>

\* execute_code that returns result without waiting for the worker
JoinWorkerDone_nowait ==
    /\ pc = "join"
    /\ returned' = Append(returned, execs[Cur].result)
    /\ pc' = AfterExecute
    /\ UNCHANGED <<requests, sandboxes, callers, overlap, quotes, candidate, verdicts, entry, original, frames, ledger, code, total_tokens, retries,
                   execs, response, genCalls, tokensSum, refineLog, charges, saved>>

\* thread.join(timeout=timeout_seconds) returns and thread.is_alive() is
\* False: the worker ended in time; return result
JoinWorkerDone ==
    /\ pc = "join"
    /\ execs[Cur].wpc = "dead"
    /\ returned' = Append(returned, execs[Cur].result)
    /\ pc' = AfterExecute
    /\ UNCHANGED <<requests, sandboxes, callers, overlap, quotes, candidate, verdicts, genCalls, entry, original, frames, ledger, code, total_tokens, retries,
                   execs, response, tokensSum, refineLog, charges, saved>>

\* thread.join() without a timeout: it never returns while the worker runs
JoinTimeout_never == FALSE /\ UNCHANGED vars

\* thread.join(timeout=timeout_seconds) returns because the time is up and
\* thread.is_alive() is True
JoinTimeout ==
    /\ pc = "join"
    /\ execs[Cur].wpc # "dead"
    /\ execs' = [execs EXCEPT ![Cur].deadline = TRUE]
    /\ pc' = "timeout_error"
    /\ UNCHANGED <<entry, original, frames, ledger, code, total_tokens, retries,
                   response, hist>>

\* result["error"] = f"Code execution timed out after {timeout_seconds} seconds."
TimeoutWriteError ==
    /\ pc = "timeout_error"
    /\ execs' = [execs EXCEPT ![Cur].result.error = TimeoutMessage]
    /\ pc' = "timeout_time"
    /\ UNCHANGED <<entry, original, frames, ledger, code, total_tokens, retries,
                   response, hist>>

\* result["execution_time_ms"] = timeout_seconds * 1000; return result
TimeoutWriteTime ==
    /\ pc = "timeout_time"
    /\ execs' = [execs EXCEPT
                   ![Cur].result.execution_time_ms = CODE_EXEC_TIMEOUT_SECONDS * 1000]
    /\ returned' = Append(returned, execs'[Cur].result)
    /\ pc' = AfterExecute
    /\ UNCHANGED <<requests, sandboxes, callers, overlap, quotes, candidate, verdicts, genCalls, entry, original, frames, ledger, code, total_tokens, retries,
                   response, tokensSum, refineLog, charges, saved>>

(***************************************************************************)
(* _run, the worker thread of the k-th execute_code call                   *)
(***************************************************************************)
\* fig = local_ns.get("fig") or safe_globals.get("fig"): the sandbox globals
\* never hold fig, so a falsy local (unbound, or the integer 0) yields None
FigLookup(c) ==
    LET local == CASE CodeOf(c).run = "figure" -> "Figure"
                   [] CodeOf(c).run = "int1" -> "int:1"
                   [] CodeOf(c).run = "int0" -> "int:0"
                   [] OTHER -> "None"
    IN IF local \in {"None", "int:0"} THEN "None" ELSE local

\* int((time.perf_counter() - start) * 1000)
Elapsed(k) == IF execs[k].deadline THEN CODE_EXEC_TIMEOUT_SECONDS * 1000 + 1 ELSE 12

\* the DataFrame heap after the exec of code c on sandbox frame d: code that
\* assigns to df['value'] writes the DataFrame bound to df in safe_globals
ExecEffect(fr, c, d) ==
    IF CodeOf(c).mutates THEN [fr EXCEPT ![d] = Scale(@)] ELSE fr

\* exec(code, safe_globals, local_ns) returns;
\* result["execution_time_ms"] = elapsed_ms, then the fig lookup
WorkerExecReturns ==
    \E k \in 1..Len(execs) :
        /\ execs[k].wpc = "exec"
        /\ CodeOf(execs[k].code).run \in {"figure", "int0", "int1", "unbound"}
        /\ frames' = ExecEffect(frames, execs[k].code, execs[k].df)
        /\ execs' = [execs EXCEPT
                       ![k].result.execution_time_ms = Elapsed(k),
                       ![k].wpc = CASE FigLookup(execs[k].code) = "None" -> "no_fig"
                                    [] FigLookup(execs[k].code) # "Figure" -> "wrong_type"
                                    [] OTHER -> "success"]
        /\ UNCHANGED <<entry, original, ledger, pc, code, total_tokens, retries,
                       response, hist>>

\* exec(...) raises an Exception:
\* except Exception as e: result["error"] = f"{type(e).__name__}: {e}"
WorkerExecRaises ==
    \E k \in 1..Len(execs) :
        /\ execs[k].wpc = "exec"
        /\ CodeOf(execs[k].code).run = "raise"
        /\ frames' = ExecEffect(frames, execs[k].code, execs[k].df)
        /\ execs' = [execs EXCEPT
                       ![k].result.error = ExceptionText(CodeOf(execs[k].code).exc),
                       ![k].wpc = "exc_time"]
        /\ UNCHANGED <<entry, original, ledger, pc, code, total_tokens, retries,
                       response, hist>>

\* exec(...) raises a BaseException that is not an Exception (SystemExit):
\* `except Exception` does not catch it and the thread ends
WorkerExecExits ==
    \E k \in 1..Len(execs) :
        /\ execs[k].wpc = "exec"
        /\ CodeOf(execs[k].code).run = "sysexit"
        /\ frames' = ExecEffect(frames, execs[k].code, execs[k].df)
        /\ execs' = [execs EXCEPT ![k].wpc = "dead"]
        /\ UNCHANGED <<entry, original, ledger, pc, code, total_tokens, retries,
                       response, hist>>

\* result["error"] = "Code did not produce a 'fig' variable."; return
WorkerNoFig ==
    \E k \in 1..Len(execs) :
        /\ execs[k].wpc = "no_fig"
        /\ execs' = [execs EXCEPT
                       ![k].result.error = <<"Code did not produce a 'fig' variable.">>,
                       ![k].wpc = "dead"]
        /\ UNCHANGED <<entry, original, frames, ledger, pc, code, total_tokens,
                       retries, response, hist>>

\* result["error"] = f"'fig' is not a plotly Figure (got {type(fig).__name__})."
WorkerWrongType ==
    \E k \in 1..Len(execs) :
        /\ execs[k].wpc = "wrong_type"
        /\ execs' = [execs EXCEPT
                       ![k].result.error = <<"'fig' is not a plotly Figure (got ", "int", ").">>,
                       ![k].wpc = "dead"]
        /\ UNCHANGED <<entry, original, frames, ledger, pc, code, total_tokens,
                       retries, response, hist>>

\* result["success"] = True
WorkerWriteSuccess ==
    \E k \in 1..Len(execs) :
        /\ execs[k].wpc = "success"
        /\ execs' = [execs EXCEPT ![k].result.success = TRUE, ![k].wpc = "figure"]
        /\ UNCHANGED <<entry, original, frames, ledger, pc, code, total_tokens,
                       retries, response, hist>>

\* result["figure"] = fig
WorkerWriteFigure ==
    \E k \in 1..Len(execs) :
        /\ execs[k].wpc = "figure"
        /\ execs' = [execs EXCEPT ![k].result.figure = "Figure", ![k].wpc = "dead"]
        /\ UNCHANGED <<entry, original, frames, ledger, pc, code, total_tokens,
                       retries, response, hist>>

\* result["execution_time_ms"] = 0
WorkerExcTime ==
    \E k \in 1..Len(execs) :
        /\ execs[k].wpc = "exc_time"
        /\ execs' = [execs EXCEPT ![k].result.execution_time_ms = 0, ![k].wpc = "dead"]
        /\ UNCHANGED <<entry, original, frames, ledger, pc, code, total_tokens,
                       retries, response, hist>>

(***************************************************************************)
(* The orchestrators                                                       *)
(***************************************************************************)
\* credits_used of an AnalysisResponse built without it
DefaultCreditsUsed == 10

\* `except Exception as e`: analyze returns AnalysisResponse(success=False,
\* error=str(e)), _generate_chart shows st.error(f"Error: {e}")
ExceptResponse(e) ==
    IF entry = "api"
    THEN [success |-> FALSE, error |-> e, credits_used |-> DefaultCreditsUsed,
          kind |-> "response"]
    ELSE [success |-> FALSE, error |-> <<"Error: ">> \o e, credits_used |-> 0,
          kind |-> "st.error"]

\* analyze, lines 21-29: 404 without the file, 402 without 5 credits
AnalyzeChecks ==
    /\ pc = "start"
    /\ entry = "api"
    /\ \E found \in BOOLEAN :
         IF ~found
         THEN /\ response' = [NoResponse EXCEPT !.kind = "http_404",
                                                !.error = <<"File not found">>]
              /\ pc' = "done"
         ELSE IF get_balance(ledger) < EstimatedCost
         THEN /\ response' = [NoResponse EXCEPT !.kind = "http_402",
                                !.error = <<"Insufficient credits. Balance: ",
                                            ToString(get_balance(ledger))>>]
              /\ pc' = "done"
         ELSE /\ response' = response
              /\ pc' = "load"
    /\ UNCHANGED <<entry, original, frames, ledger, code, total_tokens, retries,
                   execs, hist>>

\* _step_describe, lines 224-238: no Generate button without 5 credits
WizardChecks ==
    /\ pc = "start"
    /\ entry = "wizard"
    /\ IF get_balance(ledger) < EstimatedCost
       THEN /\ response' = [NoResponse EXCEPT !.kind = "st.error",
                 !.error = <<"Insufficient credits. Purchase more or upgrade your plan.">>]
            /\ pc' = "done"
       ELSE /\ response' = response
            /\ pc' = "load"
    /\ UNCHANGED <<entry, original, frames, ledger, code, total_tokens, retries,
                   execs, hist>>

\* df = file_service.load_dataframe(...): returns, or raises for a format
\* it does not support
LoadDataframe ==
    /\ pc = "load"
    /\ \E ok \in BOOLEAN :
         IF ok
         THEN /\ pc' = "generate"
              /\ response' = response
         ELSE /\ pc' = "done"
              /\ response' = ExceptResponse(<<"Unsupported format: ", "txt">>)
    /\ UNCHANGED <<entry, original, frames, ledger, code, total_tokens, retries,
                   execs, hist>>

\* analyze: llm_service.generate_chart_code returns code and tokens_used
GenerateReturns ==
    /\ pc = "generate"
    /\ entry = "api"
    /\ \E c \in StubCodes, t \in TokenVals :
         /\ code' = c
         /\ total_tokens' = t
         /\ tokensSum' = tokensSum + t
    /\ genCalls' = genCalls + 1
    /\ pc' = "execute"
    /\ UNCHANGED <<requests, sandboxes, callers, overlap, quotes, candidate, verdicts, entry, original, frames, ledger, retries, execs, response,
                   refineLog, returned, charges, saved>>

\* analyze: llm_service.generate_chart_code raises
GenerateRaises ==
    /\ pc = "generate"
    /\ entry = "api"
    /\ \E e \in GenerationErrors : response' = ExceptResponse(e)
    /\ genCalls' = genCalls + 1
    /\ pc' = "done"
    /\ UNCHANGED <<requests, sandboxes, callers, overlap, quotes, candidate, verdicts, entry, original, frames, ledger, code, total_tokens, retries,
                   execs, tokensSum, refineLog, returned, charges, saved>>

\* _generate_chart passes project_instructions=..., a keyword that
\* generate_chart_code does not accept: the call raises TypeError
WizardGenerate ==
    /\ pc = "generate"
    /\ entry = "wizard"
    /\ response' = ExceptResponse(
          <<"generate_chart_code() got an unexpected keyword argument 'project_instructions'">>)
    /\ genCalls' = genCalls + 1
    /\ pc' = "done"
    /\ UNCHANGED <<requests, sandboxes, callers, overlap, quotes, candidate, verdicts, entry, original, frames, ledger, code, total_tokens, retries,
                   execs, tokensSum, refineLog, returned, charges, saved>>

\* a loop that allows one retry too many
MayRetry_offbyone(r) == r <= MaxRetries

\* the `retries < 2` of the while condition
MayRetry(r) == r < MaxRetries

\* a loop that retries whatever the outcome was
ShouldRetry_anyoutcome(result, r) == MayRetry(r)

\* the while condition: not exec_result["success"] and retries < 2
ShouldRetry(result, r) == ~result.success /\ MayRetry(r)

\* while not exec_result["success"] and retries < 2: retries += 1
LoopTest ==
    /\ pc = "loop_test"
    /\ IF ShouldRetry(execs[Cur].result, retries)
       THEN /\ retries' = retries + 1
            /\ pc' = "refine"
       ELSE /\ retries' = retries
            /\ pc' = "deduct"
    /\ UNCHANGED <<entry, original, frames, ledger, code, total_tokens, execs,
                   response, hist>>

\* total_tokens = refine["tokens_used"]
AddTokens_overwrite(total, t) == t

\* total_tokens += refine["tokens_used"]
AddTokens(total, t) == total + t

\* refine_chart_code called without the error of the failed attempt
RefineArgs_noerror(c, r) == [original_code |-> c, error_message |-> None]

\* the arguments of refine_chart_code: original_code=code,
\* error_message=exec_result["error"]
RefineArgs(c, r) == [original_code |-> c, error_message |-> r.error]

\* body.prompt, the user's instruction
Prompt == <<"Show sales by category">>

\* bool(previous_code): false for the empty string
TruthyCode(c) == c # "empty"

\* bool(refinement_error): false for None and for the empty string
TruthyError(e) == e # None /\ e # <<>>

\* the last message build_messages appends, as the set of the parts its
\* text is made of: previous code and error, or the user prompt.  The
\* messages before it (data context, few-shot examples) hold none of them.
build_messages(user_prompt, refinement_error, previous_code) ==
    IF TruthyError(refinement_error) /\ TruthyCode(previous_code)
    THEN { <<"PREVIOUS CODE", previous_code>>, <<"ERROR", refinement_error>> }
    ELSE { <<"prompt", user_prompt>> }

\* refine_chart_code builds its messages and sends them
SendRefinement(args) ==
    Append(requests, build_messages(Prompt, args.error_message, args.original_code))

\* refine_chart_code(original_code=code, error_message=exec_result["error"])
\* returns: code = refine["code"]; total_tokens += refine["tokens_used"]
RefineReturns ==
    /\ pc = "refine"
    /\ refineLog' = Append(refineLog, RefineArgs(code, execs[Cur].result))
    /\ requests' = SendRefinement(RefineArgs(code, execs[Cur].result))
    /\ \E c \in StubCodes, t \in TokenVals :
         /\ code' = c
         /\ total_tokens' = AddTokens(total_tokens, t)
         /\ tokensSum' = tokensSum + t
    /\ pc' = "execute"
    /\ UNCHANGED <<sandboxes, callers, overlap, quotes, candidate, verdicts, genCalls, entry, original, frames, ledger, retries, execs, response,
                   returned, charges, saved>>

\* refine_chart_code raises and the call is made again
RefineRaises_retry ==
    /\ pc = "refine"
    /\ Len(refineLog) <= MaxRetries
    /\ refineLog' = Append(refineLog, RefineArgs(code, execs[Cur].result))
    /\ requests' = SendRefinement(RefineArgs(code, execs[Cur].result))
    /\ pc' = "refine"
    /\ UNCHANGED <<sandboxes, callers, overlap, quotes, candidate, verdicts, genCalls, entry, original, frames, ledger, code, total_tokens, retries,
                   execs, response, tokensSum, returned, charges, saved>>

\* refine_chart_code raises: the outer except ends the session
RefineRaises ==
    /\ pc = "refine"
    /\ refineLog' = Append(refineLog, RefineArgs(code, execs[Cur].result))
    /\ requests' = SendRefinement(RefineArgs(code, execs[Cur].result))
    /\ \E e \in GenerationErrors : response' = ExceptResponse(e)
    /\ pc' = "done"
    /\ UNCHANGED <<sandboxes, callers, overlap, quotes, candidate, verdicts, genCalls, entry, original, frames, ledger, code, total_tokens, retries,
                   execs, tokensSum, returned, charges, saved>>

\* credit_cost = calculate_credit_cost(total_tokens); deduct_credits(...)
DeductCredits ==
    /\ pc = "deduct"
    /\ charges' = Append(charges, total_tokens)
    /\ ledger' = deduct_credits(ledger, calculate_credit_cost(total_tokens))
    /\ pc' = "save"
    /\ UNCHANGED <<requests, sandboxes, callers, overlap, quotes, candidate, verdicts, genCalls, entry, original, frames, code, total_tokens, retries, execs,
                   response, tokensSum, refineLog, returned, saved>>

\* queries.save_prompt_history(..., response_error=exec_result.get("error"),
\* tokens_used=total_tokens, ...)
SavePromptHistory ==
    /\ pc = "save"
    /\ saved' = Append(saved, [response_code |-> code,
                               response_error |-> execs[Cur].result.error,
                               tokens_used |-> total_tokens])
    /\ pc' = "final_test"
    /\ UNCHANGED <<requests, sandboxes, callers, overlap, quotes, candidate, verdicts, genCalls, entry, original, frames, ledger, code, total_tokens, retries,
                   execs, response, tokensSum, refineLog, returned, charges>>

\* if not exec_result["success"]:
FinalTest ==
    /\ pc = "final_test"
    /\ pc' = IF execs[Cur].result.success THEN "respond_ok" ELSE "respond_fail"
    /\ UNCHANGED <<entry, original, frames, ledger, code, total_tokens, retries,
                   execs, response, hist>>

\* return AnalysisResponse(success=False, credits_used=credit_cost,
\*                         error=exec_result["error"])
RespondFail ==
    /\ pc = "respond_fail"
    /\ response' = [success |-> FALSE, error |-> execs[Cur].result.error,
                    credits_used |-> calculate_credit_cost(total_tokens),
                    kind |-> "response"]
    /\ pc' = "done"
    /\ UNCHANGED <<entry, original, frames, ledger, code, total_tokens, retries,
                   execs, hist>>

\* the success branch: with a dashboard_id, exec_result["figure"].to_json()
\* is evaluated, which raises AttributeError while figure is still None
RespondOk ==
    /\ pc = "respond_ok"
    /\ \E dashboard_id \in BOOLEAN :
         IF dashboard_id /\ execs[Cur].result.figure = "None"
         THEN response' = ExceptResponse(
                  <<"'NoneType' object has no attribute 'to_json'">>)
         ELSE response' = [success |-> TRUE, error |-> None,
                           credits_used |-> calculate_credit_cost(total_tokens),
                           kind |-> "response"]
    /\ pc' = "done"
    /\ UNCHANGED <<entry, original, frames, ledger, code, total_tokens, retries,
                   execs, hist>>

(***************************************************************************)
(* validate_code called directly                                           *)
(***************************************************************************)
\* a validate_code that remembers the verdict of the call before
ValidateCandidate_stale ==
    /\ pc = "validate"
    /\ verdicts' = Append(verdicts,
                          [code |-> candidate,
                           verdict |-> IF verdicts = <<>> THEN validate_code(candidate)
                                       ELSE verdicts[Len(verdicts)].verdict])
    /\ pc' = IF Len(verdicts') = MaxCalls THEN "done" ELSE "validate"
    /\ UNCHANGED <<requests, sandboxes, callers, overlap, quotes, entry, original, frames, ledger, code, total_tokens, retries, execs,
                   response, genCalls, tokensSum, refineLog, returned, charges, saved,
                   candidate>>

\* is_valid, error = validate_code(code) on the candidate string
ValidateCandidate ==
    /\ pc = "validate"
    /\ verdicts' = Append(verdicts, [code |-> candidate, verdict |-> validate_code(candidate)])
    /\ pc' = IF Len(verdicts') = MaxCalls THEN "done" ELSE "validate"
    /\ UNCHANGED <<requests, sandboxes, callers, overlap, quotes, entry, original, frames, ledger, code, total_tokens, retries, execs,
                   response, genCalls, tokensSum, refineLog, returned, charges, saved,
                   candidate>>

\* a call on another string: "import os\nfig = None"
ValidateOther ==
    /\ pc = "validate"
    /\ verdicts' = Append(verdicts, [code |-> CodeOf("imp_os"),
                                     verdict |-> validate_code(CodeOf("imp_os"))])
    /\ pc' = IF Len(verdicts') = MaxCalls THEN "done" ELSE "validate"
    /\ UNCHANGED <<requests, sandboxes, callers, overlap, quotes, entry, original, frames, ledger, code, total_tokens, retries, execs,
                   response, genCalls, tokensSum, refineLog, returned, charges, saved,
                   candidate>>

(***************************************************************************)
(* create_safe_globals called directly                                     *)
(***************************************************************************)
\* safe = create_safe_globals(df)
BuildSandbox ==
    /\ pc = "sandbox"
    /\ \E is_dict \in BOOLEAN :
         sandboxes' = Append(sandboxes, [builtins |-> safe_builtins(is_dict),
                                         df |-> create_safe_globals(frames).df])
    /\ frames' = create_safe_globals(frames).frames
    /\ pc' = IF Len(sandboxes') = MaxCalls THEN "done" ELSE "sandbox"
    /\ UNCHANGED <<requests, entry, original, ledger, code, total_tokens, retries, execs,
                   response, genCalls, tokensSum, refineLog, returned, charges, saved,
                   candidate, verdicts, callers, overlap, quotes, requests>>

\* the steps of execute_code on its caller's thread
ExecMainStep ==
    \/ ExecuteRejected \/ ExecuteStart \/ JoinWorkerDone \/ JoinTimeout
    \/ TimeoutWriteError \/ TimeoutWriteTime

MainStep ==
    \/ AnalyzeChecks \/ WizardChecks \/ LoadDataframe
    \/ GenerateReturns \/ GenerateRaises \/ WizardGenerate
    \/ ExecMainStep
    \/ LoopTest \/ RefineReturns \/ RefineRaises
    \/ DeductCredits \/ SavePromptHistory \/ FinalTest \/ RespondFail \/ RespondOk
    \/ ValidateCandidate \/ ValidateOther \/ BuildSandbox

WorkerStep ==
    \/ WorkerExecReturns \/ WorkerExecRaises \/ WorkerExecExits
    \/ WorkerNoFig \/ WorkerWrongType
    \/ WorkerWriteSuccess \/ WorkerWriteFigure \/ WorkerExcTime

Next == MainStep \/ WorkerStep

Spec == Init /\ [][Next]_vars

\* one direct call of execute_code, as in the tests.  The caller's thread is
\* never starved: a step of execute_code that can be taken is taken.  Nothing
\* is assumed about the worker.
ExecInit == Init /\ entry = "execute"
ExecNext == ExecMainStep \/ WorkerStep
ExecLiveSpec == ExecInit /\ [][ExecNext]_vars /\ WF_vars(ExecMainStep)

(***************************************************************************)
(* The credit service used directly: calculate_credit_cost on any token    *)
(* count, and add_credits / deduct_credits / reset_monthly_credits called  *)
(* by two users of one workspace.  A call is a get_balance read followed   *)
(* by an add_credit_entry insert; each is one statement on the database,   *)
(* and nothing holds the two together.                                     *)
(***************************************************************************)
\* TIERS["free"]["monthly_credits"]
MonthlyCredits == 50

Amounts == 1..MaxAmount

\* credit calls begun so far: the ledger starts with one row
LedgerOps == (Len(ledger) - 1) + Cardinality({i \in Callers : callers[i].pc = "insert"})

\* another caller is between its read and its insert
OtherUnderWay(i) == \E j \in Callers \ {i} : callers[j].pc = "insert"

\* new_balance of deduct_credits without the max(0, ..)
DeductedBalance_unclamped(current, amount) == current - amount

\* new_balance = max(0, current - amount)
DeductedBalance(current, amount) == Max(0, current - amount)

\* cost = calculate_credit_cost(tokens): the first call on any token count,
\* the next on the count after it
QuoteCost ==
    /\ entry = "cost"
    /\ Len(quotes) < 2
    /\ \E t \in (IF quotes = <<>> THEN 0..MaxTokens ELSE {quotes[Len(quotes)].tokens + 1}) :
          quotes' = Append(quotes, [tokens |-> t, cost |-> calculate_credit_cost(t)])
    /\ UNCHANGED <<requests, sandboxes, entry, original, frames, ledger, pc, code, total_tokens, retries, execs,
                   response, genCalls, tokensSum, refineLog, returned, charges, saved,
                   candidate, verdicts, callers, overlap>>

\* deduct_credits / add_credits, line 24 / 40: current = get_balance(workspace_id)
ReadBalance(i) ==
    /\ entry = "credits"
    /\ callers[i].pc = "idle"
    /\ LedgerOps < MaxLedgerOps
    /\ \E op \in {"deduct", "add"}, a \in Amounts :
          callers' = [callers EXCEPT ![i] = [pc |-> "insert", op |-> op, amount |-> a,
                                             current |-> get_balance(ledger)]]
    /\ overlap' = (overlap \/ OtherUnderWay(i))
    /\ UNCHANGED <<requests, sandboxes, entry, original, frames, ledger, pc, code, total_tokens, retries, execs,
                   response, genCalls, tokensSum, refineLog, returned, charges, saved,
                   candidate, verdicts, quotes>>

\* deduct_credits, lines 25-34: add_credit_entry(change_amount=-amount,
\* balance_after=max(0, current - amount))
InsertDeduction(i) ==
    /\ callers[i].pc = "insert"
    /\ callers[i].op = "deduct"
    /\ ledger' = Append(ledger,
                        [change_amount |-> 0 - callers[i].amount,
                         balance_after |-> DeductedBalance(callers[i].current,
                                                           callers[i].amount)])
    /\ callers' = [callers EXCEPT ![i] = Idle]
    /\ UNCHANGED <<requests, sandboxes, entry, original, frames, pc, code, total_tokens, retries, execs,
                   response, genCalls, tokensSum, refineLog, returned, charges, saved,
                   candidate, verdicts, overlap, quotes>>

\* add_credits, lines 41-50: add_credit_entry(change_amount=amount,
\* balance_after=current + amount)
InsertAddition(i) ==
    /\ callers[i].pc = "insert"
    /\ callers[i].op = "add"
    /\ ledger' = Append(ledger,
                        [change_amount |-> callers[i].amount,
                         balance_after |-> callers[i].current + callers[i].amount])
    /\ callers' = [callers EXCEPT ![i] = Idle]
    /\ UNCHANGED <<requests, sandboxes, entry, original, frames, pc, code, total_tokens, retries, execs,
                   response, genCalls, tokensSum, refineLog, returned, charges, saved,
                   candidate, verdicts, overlap, quotes>>

\* reset_monthly_credits: add_credit_entry(change_amount=allowance,
\* balance_after=allowance), without a read
ResetMonthly(i) ==
    /\ entry = "credits"
    /\ callers[i].pc = "idle"
    /\ LedgerOps < MaxLedgerOps
    /\ ledger' = Append(ledger, [change_amount |-> MonthlyCredits,
                                 balance_after |-> MonthlyCredits])
    /\ overlap' = (overlap \/ OtherUnderWay(i))
    /\ UNCHANGED <<requests, sandboxes, entry, original, frames, pc, code, total_tokens, retries, execs,
                   response, genCalls, tokensSum, refineLog, returned, charges, saved,
                   candidate, verdicts, callers, quotes>>

DeductCall == \E i \in Callers : InsertDeduction(i)
AddCall == \E i \in Callers : InsertAddition(i)
ReadCall == \E i \in Callers : ReadBalance(i)
ResetCall == \E i \in Callers : ResetMonthly(i)

\* the workspace has one ledger row, its initial credits
CreditInit ==
    /\ entry \in {"credits", "cost"}
    /\ original = <<10>>
    /\ frames = <<original>>
    /\ \E b \in 0..MaxBalance : ledger = << [change_amount |-> b, balance_after |-> b] >>
    /\ entry = "cost" => get_balance(ledger) = 0
    /\ pc = "done"
    /\ code = "bar"
    /\ total_tokens = 0
    /\ retries = 0
    /\ execs = <<>>
    /\ response = NoResponse
    /\ genCalls = 0
    /\ tokensSum = 0
    /\ refineLog = <<>>
    /\ returned = <<>>
    /\ charges = <<>>
    /\ saved = <<>>
    /\ candidate = EmptyCode
    /\ verdicts = <<>>
    /\ callers = [i \in Callers |-> Idle]
    /\ overlap = FALSE
    /\ quotes = <<>>
    /\ sandboxes = <<>>
    /\ requests = <<>>

CreditNext == QuoteCost \/ ReadCall \/ DeductCall \/ AddCall \/ ResetCall

CreditSpec == CreditInit /\ [][CreditNext]_vars

(***************************************************************************)
(* Properties                                                              *)
(***************************************************************************)
Attempts == 1..Len(execs)
Accepted(k) == validate_code(CodeOf(execs[k].code))[1]
\* the orchestrator has left the retry loop's test for attempt k behind
PastLoopTest(k) ==
    \/ Cur > k
    \/ Cur = k /\ pc \in {"deduct", "save", "final_test", "respond_ok", "respond_fail", "done"}

TimeoutOutcome ==
    [success |-> FALSE, figure |-> "None", error |-> TimeoutMessage,
     execution_time_ms |-> CODE_EXEC_TIMEOUT_SECONDS * 1000]

\* C1: a code string is exec'ed, and a sandbox and a worker thread exist for
\* it, only if validate_code accepts that string; for a rejected string
\* execute_code has returned a failure outcome and built no sandbox, started
\* no thread and exec'ed nothing.
C1_ExecOnlyValidated ==
    /\ \A k \in Attempts :
         IF Accepted(k)
         THEN execs[k].df # 0
         ELSE /\ execs[k].wpc = "none"
              /\ execs[k].df = 0
              /\ k <= Len(returned)
              /\ ~returned[k].success
    /\ Len(frames) = 1 + Cardinality({k \in Attempts : Accepted(k)}) + Len(sandboxes)

\* a session in which a rejected string was followed by one that was run
C1_Witness ==
    \E j, k \in Attempts : j < k /\ ~Accepted(j) /\ execs[k].wpc = "dead"

\* C4: the token total handed to cost accounting and saved in the prompt
\* history is the sum of tokens_used over all generation calls that returned.
C4_TokenTotal ==
    /\ \A i \in 1..Len(charges) : charges[i] = tokensSum
    /\ \A i \in 1..Len(saved) : saved[i].tokens_used = tokensSum

\* a session of three generation calls that was charged and saved
C4_Witness ==
    /\ Len(charges) = 1 /\ Len(saved) = 1
    /\ Len(refineLog) = MaxRetries
    /\ tokensSum = (MaxRetries + 1) * 600

\* C5: every outcome execute_code returns has exactly one of figure / error:
\* success with a figure and no error, or failure with an error and no figure.
C5_ExactlyOne ==
    \A k \in 1..Len(returned) :
        IF returned[k].success
        THEN returned[k].figure # "None" /\ returned[k].error = None
        ELSE returned[k].error # None /\ returned[k].figure = "None"

C10_RejectionRetried ==
    /\ Len(execs) <= MaxRetries + 1
    /\ \A k \in Attempts :
         ~Accepted(k) =>
            /\ execs[k].wpc = "none"
            /\ (entry = "api" /\ k <= MaxRetries /\ PastLoopTest(k)) => Len(refineLog) >= k
            /\ Len(refineLog) >= k =>
                 refineLog[k] =
                    [original_code |-> execs[k].code,
                     error_message |-> ValidationFailed(
                                          validate_code(CodeOf(execs[k].code))[2])]

\* a refine call was made for a rejected string
C10_Witness ==
    \E k \in Attempts : ~Accepted(k) /\ Len(refineLog) >= k

C3_ChargedOnce ==
    /\ Len(charges) <= 1
    /\ (pc = "done" /\ genCalls >= 1) => (Len(charges) = 1 /\ charges[1] = tokensSum)

\* C7: execute_code returns even when the code never ends: from the join on
\* a looping worker the caller gets the timeout failure outcome, and the
\* worker is left running.
C7_TimeoutReturns ==
    (pc = "join" /\ CodeOf(execs[Cur].code).run = "loop")
    ~> ( /\ pc = "done"
         /\ Len(returned) = Cur
         /\ returned[Cur] = TimeoutOutcome
         /\ execs[Cur].wpc = "exec" )

\* execute_code has returned the timeout outcome for looping code whose
\* worker is still running
C7_Witness ==
    \E k \in 1..Len(returned) :
        /\ CodeOf(execs[k].code).run = "loop"
        /\ returned[k] = TimeoutOutcome
        /\ execs[k].wpc = "exec"

\* C8: an attempt for which execute_code recorded a timeout, with fewer than
\* two refinements made, is followed by a refine call carrying the timeout
\* error, and a timed-out attempt is never the session's successful result.
C8_TimeoutRefined ==
    \A k \in 1..Len(returned) :
        (entry = "api" /\ execs[k].deadline) =>
            /\ (k <= MaxRetries /\ PastLoopTest(k)) =>
                   (Len(refineLog) >= k /\ refineLog[k].error_message = TimeoutMessage)
            /\ (k = Cur /\ pc = "done") => ~response.success

\* the refine call for attempt k is made only after execute_code returned a
\* failure outcome for attempt k
RefineAfterFailure ==
    \A k \in 1..Len(refineLog) : k <= Len(returned) /\ ~returned[k].success

\* C9 as claimed: attempts are sequential and no two attempts' code strings
\* execute at the same time, abandoned workers included.
C9_NeverConcurrent ==
    /\ RefineAfterFailure
    /\ \A j, k \in Attempts :
         j < k => ~(execs[j].wpc = "exec" /\ execs[k].wpc = "exec")

\* C9 amended: attempts are sequential, and two attempts' code strings
\* execute at the same time only when the earlier attempt timed out and its
\* worker was abandoned.
C9_ConcurrentOnlyAbandoned ==
    /\ RefineAfterFailure
    /\ \A j, k \in Attempts :
         (j < k /\ execs[j].wpc = "exec" /\ execs[k].wpc = "exec") => execs[j].deadline

\* the worker of a timed-out attempt executes alongside the next attempt's
C9_Witness ==
    \E j, k \in Attempts :
        j < k /\ execs[j].wpc = "exec" /\ execs[k].wpc = "exec" /\ execs[j].deadline

\* the error texts execute_code returns for rejected code strings
RejectionTexts ==
    { ValidationFailed(validate_code(CodeOf(c))[2]) : c \in {x \in Codes : ~IsSafe(x)} }

\* a finished session whose three attempts were all rejected reports the
\* rejection reason of the third
ReportsLastRejection ==
    ( /\ entry = "api" /\ pc = "done" /\ Len(execs) = MaxRetries + 1
      /\ \A k \in Attempts : ~Accepted(k) )
    => /\ ~response.success
       /\ response.error = ValidationFailed(validate_code(CodeOf(execs[Cur].code))[2])

\* C11: when all three attempts are rejected the reported error is the
\* rejection reason of the last attempt, and no outcome of code that was
\* run (runtime failure or timeout) carries the error text of a rejection.
C11_RejectionDistinguishable ==
    /\ ReportsLastRejection
    /\ \A k \in 1..Len(returned) :
         Accepted(k) => returned[k].error \notin RejectionTexts

\* C12: once execute_code has returned a success outcome for an attempt, that
\* attempt stays the last one: no refine call and no execute_code call
\* follows; when it is the first attempt, the token total charged and saved
\* is the tokens_used of the one generate call.
C12_SuccessEndsLoop ==
    \A k \in 1..Len(returned) :
        returned[k].success =>
            /\ Cur = k
            /\ Len(refineLog) = k - 1
            /\ pc \notin {"refine", "execute", "join", "timeout_error", "timeout_time"}
            /\ (k = 1 /\ entry = "api") =>
                  /\ genCalls = 1
                  /\ total_tokens = tokensSum /\ tokensSum \in TokenVals
                  /\ \A i \in 1..Len(charges) : charges[i] = total_tokens
                  /\ \A i \in 1..Len(saved) : saved[i].tokens_used = total_tokens

\* a session whose first attempt succeeded has been charged and answered
C12_Witness ==
    /\ entry = "api" /\ pc = "done"
    /\ Len(returned) = 1 /\ returned[1].success
    /\ Len(charges) = 1 /\ response.success

\* generate_chart_code and refine_chart_code calls made so far
CallsMade == genCalls + Len(refineLog)

\* what str(e) can be for an exception of a generation call
GenerationErrorTexts ==
    GenerationErrors \cup
    { <<"generate_chart_code() got an unexpected keyword argument 'project_instructions'">> }

\* the entry point has handed back a failure carrying the exception's text
FailureResponse(r) ==
    /\ ~r.success
    /\ r.kind \in {"response", "st.error"}
    /\ \E e \in GenerationErrorTexts : r.error \in {e, <<"Error: ">> \o e}

\* C13: a step in which a generate or refine call raises (a call is made and
\* no tokens come back) ends the session with a failure response carrying
\* the exception's text; a finished session makes no generation call and no
\* execute_code call, and its response stays as it is.
C13_GenerationErrorHandled ==
    [][ /\ (CallsMade' > CallsMade /\ tokensSum' = tokensSum) =>
             /\ CallsMade' = CallsMade + 1
             /\ pc' = "done"
             /\ FailureResponse(response')
        /\ (pc = "done" /\ entry # "execute") =>
             /\ pc' = "done"
             /\ UNCHANGED <<candidate, verdicts, genCalls, refineLog, returned, response, code, retries>>
             /\ Len(execs') = Len(execs)
      ]_vars

\* a refine call raised after a failed first attempt
C13_Witness ==
    /\ entry = "api" /\ pc = "done"
    /\ Len(refineLog) = 1 /\ Len(execs) = 1
    /\ FailureResponse(response)

\* the outcome execute_code returned for attempt k reports the exception
\* that the code of attempt k raises
ReportsException(k) ==
    /\ ~returned[k].success
    /\ returned[k].figure = "None"
    /\ returned[k].error = ExceptionText(CodeOf(execs[k].code).exc)

\* exceptions of class Exception are reported
ExceptionsReported ==
    \A k \in 1..Len(returned) :
        (Accepted(k) /\ ~execs[k].deadline /\ CodeOf(execs[k].code).run = "raise")
            => ReportsException(k)

\* C14: whatever validated code raises while it runs, execute_code returns
\* (the worker ended before the timeout) a failure outcome whose error is
\* the exception's type name and message.
C14_EveryExceptionReported ==
    \A k \in 1..Len(returned) :
        ( /\ Accepted(k) /\ ~execs[k].deadline
          /\ CodeOf(execs[k].code).run \in {"raise", "sysexit"} )
            => ReportsException(k)

NoFigMessage == <<"Code did not produce a 'fig' variable.">>
WrongTypeMessage(t) == <<"'fig' is not a plotly Figure (got ", t, ").">>

\* C15: for validated code that ends without raising (and in time),
\* execute_code returns success only when fig is a Figure; fig bound to an
\* integer, 0 as well as 1, gives the type-mismatch failure naming int; fig
\* left unbound gives the 'did not produce' failure.
C15_FigTypeChecked ==
    \A k \in 1..Len(returned) :
        (Accepted(k) /\ ~execs[k].deadline) =>
            LET run == CodeOf(execs[k].code).run IN
            /\ returned[k].success => run = "figure"
            /\ run \in {"int0", "int1"} =>
                  (~returned[k].success /\ returned[k].error = WrongTypeMessage("int"))
            /\ run = "unbound" =>
                  (~returned[k].success /\ returned[k].error = NoFigMessage)

\* the direct validate_code calls made so far
Calls == 1..Len(verdicts)

\* modules named by an import node whose top-level package is not allowed
BadImports(node) ==
    IF node.type = "Import"
    THEN { node.names[i] : i \in { j \in 1..Len(node.names) :
                                      <<Head(node.names[j])>> \notin ALLOWED_MODULES } }
    ELSE IF /\ node.type = "ImportFrom" /\ node.module # <<>>
            /\ <<Head(node.module)>> \notin ALLOWED_MODULES
    THEN { node.module }
    ELSE {}

HasBadImport(c) == c.parses /\ \E i \in 1..Len(c.nodes) : BadImports(c.nodes[i]) # {}

\* the reason is an import rejection naming a disallowed module of node
NamesBadImportOf(reason, node) ==
    \E m \in BadImports(node) :
        reason \in { <<"Import of '">> \o Dotted(m) \o <<"' is not allowed.">>,
                     <<"Import from '">> \o Dotted(m) \o <<"' is not allowed.">> }

\* a call or attribute node that validate_code rejects
BlockedCallOrAttribute(node) ==
    node.type \in {"Call", "Attribute"} /\ NodeViolation(node) # <<>>

NoFigAssignment(c) ==
    \A i \in 1..Len(c.nodes) :
        c.nodes[i].type \in {"Assign", "AugAssign", "AnnAssign"} =>
            \A j \in 1..Len(c.nodes[i].targets) :
                c.nodes[i].targets[j] \notin {"fig", "(fig, ax)"}

MentionsFig(reason) ==
    reason = MissingFigReason \/ \E i \in 1..Len(reason) : reason[i] = "fig"

\* the string breaks none of the import, call and attribute rules
BreaksNoRule(c) ==
    \A i \in 1..Len(c.nodes) :
        BadImports(c.nodes[i]) = {} /\ ~BlockedCallOrAttribute(c.nodes[i])

\* C17 as claimed: a string that parses and never assigns to fig is rejected
\* with a reason that mentions fig.
C17_NoFigMentioned ==
    \A n \in Calls :
        (verdicts[n].code.parses /\ NoFigAssignment(verdicts[n].code)) =>
            (~verdicts[n].verdict[1] /\ MentionsFig(verdicts[n].verdict[2]))

\* C17 amended: a string that parses and never assigns to fig is rejected;
\* the reason is the missing-fig message when the string breaks no other
\* rule, and names the disallowed import, call or attribute when it does.
C17_NoFigRejected ==
    \A n \in Calls :
        (verdicts[n].code.parses /\ NoFigAssignment(verdicts[n].code)) =>
            /\ ~verdicts[n].verdict[1]
            /\ IF BreaksNoRule(verdicts[n].code)
               THEN verdicts[n].verdict[2] = MissingFigReason
               ELSE Head(verdicts[n].verdict[2]) \in
                        {"Import of '", "Import from '", "Call to '", "Access to '"}

\* validate_code rejected the empty string with the missing-fig message
C17_Witness ==
    \E n \in Calls :
        /\ verdicts[n].code = EmptyCode
        /\ verdicts[n].verdict = <<FALSE, MissingFigReason>>

\* the string has a statement that binds fig: fig = .., fig, ax = ..,
\* fig += .. or fig: T = ..
BindsFig(c) == ~NoFigAssignment(c)

\* the plain assignments are accepted: a string that breaks no rule and has
\* `fig = ..` or `fig += ..`
PlainFigAccepted ==
    \A n \in Calls :
        ( /\ verdicts[n].code.parses /\ BreaksNoRule(verdicts[n].code)
          /\ \E i \in 1..Len(verdicts[n].code.nodes) :
                verdicts[n].code.nodes[i] \in {AssignNode(<<"fig">>), AugAssignNode("fig")} )
        => verdicts[n].verdict = <<TRUE, <<>> >>

\* C18: a string that parses, has no disallowed import, no call and no
\* attribute access that validate_code blocks, and binds fig, is accepted.
C18_CompliantAccepted ==
    \A n \in Calls :
        ( /\ verdicts[n].code.parses
          /\ BreaksNoRule(verdicts[n].code)
          /\ BindsFig(verdicts[n].code) )
        => verdicts[n].verdict = <<TRUE, <<>> >>

\* two direct calls on the same string returned the same pair
SameVerdicts ==
    \A m, n \in Calls :
        verdicts[m].code = verdicts[n].code => verdicts[m].verdict = verdicts[n].verdict

\* within a session, the validate_code calls of execute_code on the same
\* string agree: both attempts were run, or both were rejected with the
\* same outcome
SameDecisions ==
    \A j, k \in 1..Len(returned) :
        execs[j].code = execs[k].code =>
            /\ (execs[j].wpc = "none") <=> (execs[k].wpc = "none")
            /\ execs[j].wpc = "none" => returned[j] = returned[k]

TimeoutBudget == CODE_EXEC_TIMEOUT_SECONDS * 1000

\* as execute_code returns it, a timeout outcome carries the budget
TimeoutBudgetAtReturn ==
    \A k \in 1..Len(returned) :
        returned[k].error = TimeoutMessage => returned[k].execution_time_ms = TimeoutBudget

\* the caller is at a statement that reads exec_result
CallerReads ==
    \/ entry = "api" /\ pc \in {"loop_test", "refine", "save", "final_test", "respond_fail"}
    \/ entry = "execute" /\ pc = "done"

\* C20: an outcome whose error is the timeout message has execution_time_ms
\* equal to timeout_seconds * 1000, as execute_code returns it and whenever
\* the caller reads it later.
C20_TimeoutBudgetKept ==
    /\ TimeoutBudgetAtReturn
    /\ (CallerReads /\ Len(returned) = Cur /\ execs[Cur].result.error = TimeoutMessage)
           => execs[Cur].result.execution_time_ms = TimeoutBudget

\* C21: calculate_credit_cost(t) is max(1, ceil(t / 1000)): at least 1, the
\* least number of thousands that covers t when t > 1000, 1 for 0..1000,
\* and the cost of t + 1 is not below the cost of t.
C21_CostIsCeiling ==
    /\ \A n \in 1..Len(quotes) :
         LET t == quotes[n].tokens
             c == quotes[n].cost
         IN /\ c >= 1
            /\ c * TOKENS_PER_CREDIT >= t
            /\ c > 1 => (c - 1) * TOKENS_PER_CREDIT < t
            /\ t \in 0..TOKENS_PER_CREDIT => c = 1
    /\ \A m, n \in 1..Len(quotes) :
         quotes[m].tokens <= quotes[n].tokens => quotes[m].cost <= quotes[n].cost

\* the cost was asked for 1000 and for 1001 tokens
C21_Witness ==
    /\ Len(quotes) = 2
    /\ quotes[1] = [tokens |-> TOKENS_PER_CREDIT, cost |-> 1]
    /\ quotes[2] = [tokens |-> TOKENS_PER_CREDIT + 1, cost |-> 2]

\* the ledger rows written by the credit calls
CallRows == 2..Len(ledger)

\* sum of change_amount over rows 2..n
RECURSIVE SumChanges(_)
SumChanges(n) == IF n < 2 THEN 0 ELSE SumChanges(n - 1) + ledger[n].change_amount

\* only deduct_credits calls were made, one after the other
SequentialDeductions ==
    /\ ~overlap
    /\ \A n \in CallRows : ledger[n].change_amount < 0

\* C22: after sequential deduct_credits calls each row's balance is
\* max(0, previous balance - amount); the balance is the initial balance
\* minus the amounts while their sum does not exceed it, and never negative.
C22_SequentialDeductions ==
    SequentialDeductions =>
        /\ \A n \in CallRows :
             ledger[n].balance_after =
                 Max(0, ledger[n - 1].balance_after + ledger[n].change_amount)
        /\ (0 - SumChanges(Len(ledger))) <= ledger[1].balance_after =>
               get_balance(ledger) = ledger[1].balance_after + SumChanges(Len(ledger))
        /\ get_balance(ledger) >= 0

\* three sequential deductions, the last of which met the floor of 0
C22_Witness ==
    /\ SequentialDeductions
    /\ Len(ledger) = 4
    /\ ledger[3].balance_after = ledger[1].balance_after + SumChanges(3)
    /\ ledger[3].balance_after > 0
    /\ ledger[4].balance_after = 0
    /\ ledger[3].balance_after + ledger[4].change_amount < 0

\* C23: the builtins of every sandbox context built by create_safe_globals
\* hold no blocked builtin in its raw form, map __import__ to _safe_import,
\* and keep len, range, int, float, str, list, dict, sorted, max and min.
C23_BuiltinsRestricted ==
    \A n \in 1..Len(sandboxes) :
        LET b == sandboxes[n].builtins IN
        /\ \A k \in BLOCKED_BUILTINS : k \in DOMAIN b => b[k] # k
        /\ "__import__" \in DOMAIN b /\ b["__import__"] = "_safe_import"
        /\ \A k \in {"len", "range", "int", "float", "str", "list", "dict",
                      "sorted", "max", "min"} : k \in DOMAIN b /\ b[k] = k

\* sandboxes were built from a builtins dict and from a builtins module
C23_Witness ==
    \E m, n \in 1..Len(sandboxes) :
        /\ "__build_class__" \in DOMAIN sandboxes[m].builtins
        /\ "__build_class__" \notin DOMAIN sandboxes[n].builtins

\* the rule of validate_code that a node breaks: 2 import, 3 call,
\* 4 attribute, 0 none
NodeRule(node) ==
    IF BadImports(node) # {} THEN 2
    ELSE IF node.type = "Call" /\ BlockedCallOrAttribute(node) THEN 3
    ELSE IF node.type = "Attribute" /\ BlockedCallOrAttribute(node) THEN 4
    ELSE 0

\* the rules a code string breaks
ViolatedRules(c) ==
    IF ~c.parses THEN {1}
    ELSE ({ NodeRule(c.nodes[i]) : i \in 1..Len(c.nodes) } \ {0})
         \cup (IF AssignsFig(c.nodes) THEN {} ELSE {5})

\* the rule a reason reports
ReasonRule(reason) ==
    IF reason = <<>> THEN 0
    ELSE IF Head(reason) = "Syntax error: " THEN 1
    ELSE IF Head(reason) \in {"Import of '", "Import from '"} THEN 2
    ELSE IF Head(reason) = "Call to '" THEN 3
    ELSE IF Head(reason) = "Access to '" THEN 4
    ELSE IF reason = MissingFigReason THEN 5
    ELSE 0

C25_RefinementCarriesContext ==
    \A k \in 1..Len(requests) :
        /\ <<"prompt", Prompt>> \in requests[k]
        /\ <<"PREVIOUS CODE", refineLog[k].original_code>> \in requests[k]
        /\ <<"ERROR", refineLog[k].error_message>> \in requests[k]

\* the DataFrame bound to df in the sandbox of attempt k
SandboxFrame(k) == frames[execs[k].df]

C27_ReturnedOutcomeStable ==
    \A k \in 1..Len(returned) : execs[k].result = returned[k]

\* two deduct_credits calls, and nothing else, were made and have returned,
\* and the initial balance covers both amounts
TwoDeductionsDone ==
    /\ entry = "credits"
    /\ Len(ledger) = 3
    /\ \A i \in Callers : callers[i].pc = "idle"
    /\ \A n \in CallRows : ledger[n].change_amount < 0
    /\ ledger[1].balance_after >= 0 - SumChanges(3)

\* C28: after two deduct_credits calls of amounts a and b on a balance
\* B >= a + b the balance is B - a - b, however the reads and inserts of the
\* two calls interleave.
C28_NoDeductionLost ==
    TwoDeductionsDone =>
        get_balance(ledger) = ledger[1].balance_after + SumChanges(3)

\* C29: after calls of add_credits, deduct_credits and reset_monthly_credits
\* made one after the other, every row's balance_after is the balance_after
\* of the row before it (0 for the first row) plus the row's change_amount.
C29_LedgerConsistent ==
    (entry = "credits" /\ ~overlap) =>
        \A n \in 1..Len(ledger) :
            ledger[n].balance_after =
                (IF n = 1 THEN 0 ELSE ledger[n - 1].balance_after) + ledger[n].change_amount

\* the generation client raised on the first call and the session ended with
\* that error
ClientRaisedFirst == \E e \in GenerationErrors : response = ExceptResponse(e)

\* C30: analyze and _generate_chart run the same state machine: in either,
\* a finished session that made its generate call either ended with the
\* error the generation client raised or went on to call execute_code on the
\* code the client returned, and a session that ended without an exception
\* was charged once.
C30_SameStateMachine ==
    (entry \in {"api", "wizard"} /\ pc = "done" /\ genCalls = 1) =>
        /\ ClientRaisedFirst \/ Len(execs) >= 1
        /\ (response.kind = "response" /\ response.credits_used # DefaultCreditsUsed)
              => Len(charges) = 1

====
